---- MODULE Spec2Model ----
(***************************************************************************)
(* Gallery cache and reorder synchronisation of the site's front end.      *)
(*                                                                         *)
(* Two browsing contexts share one localStorage: the public gallery page   *)
(* (galleryApp.js / galleryApi.js / galleryCache.js / galleryState) and    *)
(* the CMS dashboard (dragReorder.js, cms.js), which calls                 *)
(* window.invalidateGalleryCache and window.clearGalleryCache.  Every      *)
(* page evaluates galleryCache.js itself, so each context has its own      *)
(* in-memory CACHE_VERSION.                                                *)
(*                                                                         *)
(* A handler of the gallery page runs atomically between its awaits.  The  *)
(* reorder-success path of the CMS is modelled statement by statement      *)
(* (marker write, version bump, removal, clear): the two pages are         *)
(* separate event loops, so a gallery handler can run between two          *)
(* localStorage operations of the CMS; for the same reason setCachedData   *)
(* is two steps, its check of the marker and its setItem.  Between those   *)
(* two steps the clock advances by a millisecond at most.                  *)
(***************************************************************************)
EXTENDS Integers, Sequences, FiniteSets, TLC

VARIABLES
    now,          \* Date.now(), milliseconds
    ticks,        \* number of clock advances so far (bounds the run)
    store,        \* localStorage: key -> <<>> (absent) or <<value>>
    storageThrows,\* the localStorage methods that throw (quota exceeded, storage disabled)
    gversion,     \* CACHE_VERSION of the gallery page
    galleryState, \* galleryState of the gallery page
    gpc,          \* gallery page: "unloaded" | "fetching" | "ready" | "error"
    button,       \* the .load-more-btn element exists
    moreReqs,     \* cursors of the load-more requests in flight
    requests,     \* history: first-page network requests sent since the page was loaded
    pendingWrite, \* setCachedData between its check and its setItem: <<string>>
    cversion,     \* CACHE_VERSION of the CMS page
    cpc,          \* CMS page: "idle" | "put" | "inv1" | "inv2" | "inv3" | "clear"
    ran,          \* history: the cache statements the latest saveImageOrder call has run
    invTimes,     \* history: the time of every invalidateGalleryCache call
    lastWritten,  \* history: <<payload, time>> of a setCachedData call followed by nothing but reads
    last,         \* history: the last operation and the branches it took
    http,         \* the fetchWithRetry call under way, or the last one
    cors,         \* the fetchWithCORS call under way, or the last one, and the auth token
    lightbox      \* the optimized lightbox: its state object, the image shown, the loads under way

vars == <<now, ticks, store, storageThrows, gversion, galleryState, gpc, button, moreReqs, requests,
          pendingWrite, cversion, cpc, ran, invTimes, lastWritten, last, http, cors,
          lightbox>>

galleryVars == <<gversion, galleryState, gpc, button, moreReqs, requests, pendingWrite>>
cmsVars == <<cversion, cpc, ran, invTimes>>

\* The state of the other modules of the site
sideVars == <<http, cors, lightbox>>

----------------------------------------------------------------------------
(* Bounds of the model *)

MaxTicks == 2
MaxReorders == 2
NumPages == 2

\* Clock advances the model chooses from: the suppression window and the
\* TTL.  Inside a synchronous run of statements at most 1 ms passes.
Delays == {60000, 900000}
ShortDelays == {1}

----------------------------------------------------------------------------
(* Program constants *)

SUPPRESSION_MS == 60000
TTL == 900000
\* Faulty variant: recache after 5 minutes
RECACHE_EARLY == 5 * 60 * 1000

RECACHE_MS == 960000
INITIAL_VERSION == 2

KEY == "gallery_cache"
REORDER_TIMESTAMP_KEY == "gallery_last_reorder_timestamp"

\* JavaScript null / a missing storage key, and a present value
None == <<>>
Some(v) == <<v>>

\* JavaScript values of the API payload are tokens: "null", "undefined",
\* "true", "false", a cursor string, a count.  Truthy is JavaScript's
\* ToBoolean on them.
Null == "null"
Undefined == "undefined"
Truthy(v) == v \notin {"null", "undefined", "false", ""}
Bool(b) == IF b THEN "true" ELSE "false"

----------------------------------------------------------------------------
(* core/storage.js *)

getItem(s, k) == s[k]

setItem(s, k, v) == [s EXCEPT ![k] = Some(v)]

removeItem(s, k) == [s EXCEPT ![k] = None]

----------------------------------------------------------------------------
(* JSON.stringify / JSON.parse on the cache object.  A property whose      *)
(* value is undefined is dropped by stringify; reading a missing property  *)
(* of the parsed object yields undefined.                                  *)

\* Faulty variant: every falsy-looking property (undefined or null) is dropped
DropNullish(o) == [k \in {x \in DOMAIN o : o[x] \notin {Undefined, Null}} |-> o[k]]

DropUndefined(o) == [k \in {x \in DOMAIN o : o[x] # Undefined} |-> o[k]]

Prop(o, k) == IF k \in DOMAIN o THEN o[k] ELSE Undefined

JsonStringify(obj) ==
    [text |-> [data |-> [images |-> obj.data.images,
                         pagination |-> DropUndefined(obj.data.pagination)],
               timestamp |-> obj.timestamp,
               version |-> obj.version]]

JsonParse(str) == str.text

----------------------------------------------------------------------------
(* The remote API, GET /api/gallery-images?limit=12&cursor=<c>: page p of  *)
(* NumPages.  Every image record carries the time it was obtained.  The    *)
(* server may leave total_count out (the client does not validate it).     *)

Cursor(p) == ToString(p)

PageOf(cursor) ==
    IF Truthy(cursor) THEN CHOOSE p \in 1..NumPages : Cursor(p) = cursor ELSE 1

ApiResponse(cursor, t, total) ==
    LET p == PageOf(cursor) IN
    [images |-> <<[id |-> p, at |-> t]>>,
     pagination |-> [next_cursor |-> IF p < NumPages THEN Cursor(p + 1) ELSE Null,
                     has_more |-> Bool(p < NumPages),
                     total_count |-> total]]

TotalCounts == {"total", Undefined}

----------------------------------------------------------------------------
(* features/gallery/galleryCache.js *)

\* parseInt(lastReorderTimestamp): the marker is written as now.toString(),
\* a decimal string of a non-negative integer, which parseInt reads back
\* exactly.
Marker(s) == getItem(s, REORDER_TIMESTAMP_KEY)

\* Faulty variant: the window still holds at exactly 60 seconds
RecentReorderLe(s, t) == Marker(s) # None /\ t - Marker(s)[1] <= SUPPRESSION_MS

\* if (lastReorderTimestamp) { reorderAge = Date.now() - parseInt(..);
\*                             if (reorderAge < 60000) ... }
RecentReorder(s, t) == Marker(s) # None /\ t - Marker(s)[1] < SUPPRESSION_MS

\* Faulty variants of getCachedData(): "nostale" leaves out the comparison
\* with the reorder marker, "nottl" the expiry, "ttlge" expires at age = TTL
GetCachedDataFaulty(s, t, ver, fault) ==
    LET cached == getItem(s, KEY) IN
    IF RecentReorder(s, t)
    THEN [ret |-> None, store |-> s, why |-> "window"]
    ELSE IF cached = None
    THEN [ret |-> None, store |-> s, why |-> "absent"]
    ELSE LET parsed == cached[1].text IN
         IF parsed.version # ver
         THEN [ret |-> None, store |-> removeItem(s, KEY), why |-> "version"]
         ELSE IF fault # "nostale" /\ Marker(s) # None /\ parsed.timestamp < Marker(s)[1]
         THEN [ret |-> None, store |-> removeItem(s, KEY), why |-> "stale"]
         ELSE IF /\ fault # "nottl"
                 /\ IF fault = "ttlge" THEN t - parsed.timestamp >= TTL
                                       ELSE t - parsed.timestamp > TTL
         THEN [ret |-> None, store |-> removeItem(s, KEY), why |-> "expired"]
         ELSE [ret |-> Some([data |-> parsed.data,
                             timestamp |-> parsed.timestamp,
                             age |-> t - parsed.timestamp]),
               store |-> s, why |-> "hit"]

GetCachedDataNoStale(s, t, ver) == GetCachedDataFaulty(s, t, ver, "nostale")

GetCachedDataNoTtl(s, t, ver) == GetCachedDataFaulty(s, t, ver, "nottl")

GetCachedDataTtlGe(s, t, ver) == GetCachedDataFaulty(s, t, ver, "ttlge")

\* getCachedData(): the value returned, the storage it leaves, the branch taken
GetCachedData(s, t, ver) ==
    LET cached == getItem(s, KEY) IN
    IF RecentReorder(s, t)
    THEN [ret |-> None, store |-> s, why |-> "window"]
    ELSE IF cached = None
    THEN [ret |-> None, store |-> s, why |-> "absent"]
    ELSE LET parsed == JsonParse(cached[1]) IN
         IF parsed.version # ver
         THEN [ret |-> None, store |-> removeItem(s, KEY), why |-> "version"]
         ELSE IF Marker(s) # None /\ parsed.timestamp < Marker(s)[1]
         THEN [ret |-> None, store |-> removeItem(s, KEY), why |-> "stale"]
         ELSE IF t - parsed.timestamp > TTL
         THEN [ret |-> None, store |-> removeItem(s, KEY), why |-> "expired"]
         ELSE [ret |-> Some([data |-> parsed.data,
                             timestamp |-> parsed.timestamp,
                             age |-> t - parsed.timestamp]),
               store |-> s, why |-> "hit"]

\* Faulty variant of setCachedData(): no look at the reorder marker
SetCachedDataNoCheck(s, data, t, ver) ==
    Some([text |-> [data |-> [images |-> data.images,
                              pagination |-> DropUndefined(data.pagination)],
                    timestamp |-> t, version |-> ver]])

\* setCachedData(data) up to its setItem: <<>> when the write is skipped,
\* else <<the string it is about to store>>
SetCachedData(s, data, t, ver) ==
    IF RecentReorder(s, t)
    THEN None
    ELSE Some(JsonStringify([data |-> data, timestamp |-> t, version |-> ver]))

\* Faulty variant of clearGalleryCache(): nothing is removed
ClearGalleryCacheNothing(s) == s

\* Faulty variant of clearGalleryCache(): the marker goes too
ClearGalleryCacheAll(s) == removeItem(removeItem(s, KEY), REORDER_TIMESTAMP_KEY)

\* clearGalleryCache()
ClearGalleryCache(s) == removeItem(s, KEY)

\* Faulty variants of invalidateGalleryCache(): the removal first and the
\* marker last; a marker that is only written when there is none
InvalidateStepsRemoveFirst == <<"remove", "bump", "mark">>

InvalidateMarkKeepFirst(s, t) ==
    IF Marker(s) # None THEN s ELSE setItem(s, REORDER_TIMESTAMP_KEY, t)

\* invalidateGalleryCache(): its three statements, in the order of the code
InvalidateSteps == <<"mark", "bump", "remove">>

InvalidateMark(s, t) == setItem(s, REORDER_TIMESTAMP_KEY, t)

InvalidateBump(ver) == ver + 1

InvalidateRemove(s) == removeItem(s, KEY)

----------------------------------------------------------------------------
(* features/gallery/galleryState.js *)

ResetState == [allImages |-> <<>>, nextCursor |-> Null,
               hasMore |-> "true", isLoading |-> FALSE]

\* Faulty variant of appendImages(): the new page replaces the list
AppendImagesReplaces(all, images) == images

\* appendImages(images)
AppendImages(all, images) == all \o images

\* The payload renderGallery and loadMoreImages hand to setCachedData
CachePayload(gs, total) ==
    [images |-> gs.allImages,
     pagination |-> [next_cursor |-> gs.nextCursor,
                     has_more |-> gs.hasMore,
                     total_count |-> total]]

----------------------------------------------------------------------------
(* features/gallery/galleryApp.js *)

Op(op, res, why, wrote) == [op |-> op, res |-> res, why |-> why, wrote |-> wrote]

Wrote(w) == IF w = None THEN "blocked" ELSE "stored"


\* No synchronous run of statements of the gallery page is under way
GalleryIdle == pendingWrite = None

\* Faulty variant of renderGallery(): the recache condition is inverted, so
\* what came from the network is not written back
RenderFirstPageInverted(data, fromCache, cacheAge, s, t, ver) ==
    LET gs == [allImages |-> data.images,
               nextCursor |-> Prop(data.pagination, "next_cursor"),
               hasMore |-> Prop(data.pagination, "has_more"),
               isLoading |-> FALSE]
        shouldRecache == fromCache
        payload == CachePayload(gs, Prop(data.pagination, "total_count"))
        w == IF shouldRecache THEN SetCachedData(s, payload, t, ver) ELSE None
    IN [gs |-> gs, write |-> w,
        payload |-> IF shouldRecache THEN Some(payload) ELSE None,
        wrote |-> IF shouldRecache THEN Wrote(w) ELSE "none",
        button |-> Len(gs.allImages) > 0 /\ Truthy(gs.hasMore)]

\* renderGallery() after fetchGalleryImages(null, true) has resolved with
\* {data, fromCache, cacheAge}: the state update, the recache decision and
\* the load-more button.
RenderFirstPage(data, fromCache, cacheAge, s, t, ver) ==
    LET gs == [allImages |-> data.images,
               nextCursor |-> Prop(data.pagination, "next_cursor"),
               hasMore |-> Prop(data.pagination, "has_more"),
               isLoading |-> FALSE]
        shouldRecache == ~fromCache \/ cacheAge > RECACHE_MS
        payload == CachePayload(gs, Prop(data.pagination, "total_count"))
        w == IF shouldRecache THEN SetCachedData(s, payload, t, ver) ELSE None
    IN [gs |-> gs, write |-> w,
        payload |-> IF shouldRecache THEN Some(payload) ELSE None,
        wrote |-> IF shouldRecache THEN Wrote(w) ELSE "none",
        button |-> Len(gs.allImages) > 0 /\ Truthy(gs.hasMore)]

\* A page load of the gallery page: the modules are evaluated afresh
\* (CACHE_VERSION = 'v2', resetState), the requests of the previous page
\* are gone, and renderGallery runs up to its first await.  On a cache hit
\* the rest of renderGallery follows in the same task.
PageLoad ==
    LET r == GetCachedData(store, now, INITIAL_VERSION) IN
    /\ GalleryIdle
    /\ gversion' = INITIAL_VERSION
    /\ moreReqs' = <<>>
    /\ store' = r.store
    /\ IF r.ret # None
       THEN LET f == RenderFirstPage(r.ret[1].data, TRUE, r.ret[1].age,
                                     r.store, now, INITIAL_VERSION) IN
            /\ galleryState' = f.gs
            /\ button' = f.button
            /\ gpc' = "ready"
            /\ requests' = 0
            /\ pendingWrite' = f.write
            /\ lastWritten' = IF f.write # None THEN Some([data |-> f.payload[1], at |-> now])
                              ELSE lastWritten
            /\ last' = Op("pageLoad", "cache", r.why, f.wrote)
       ELSE /\ galleryState' = ResetState
            /\ button' = FALSE
            /\ gpc' = "fetching"
            /\ requests' = 1
            /\ pendingWrite' = None
            /\ lastWritten' = None
            /\ last' = Op("pageLoad", "network", r.why, "none")
    /\ UNCHANGED <<now, ticks, storageThrows, sideVars, cmsVars>>

\* The first-page request resolves: a valid response, or a failure
\* (network error, HTTP error, malformed body) that fetchGalleryImages throws.
FirstPageResponse(ok, total) ==
    /\ GalleryIdle
    /\ gpc = "fetching"
    /\ IF ok
       THEN LET f == RenderFirstPage(ApiResponse(Null, now, total), FALSE, 0,
                                     store, now, gversion) IN
            /\ galleryState' = f.gs
            /\ button' = f.button
            /\ gpc' = "ready"
            /\ pendingWrite' = f.write
            /\ lastWritten' = IF f.write # None THEN Some([data |-> f.payload[1], at |-> now])
                              ELSE None
            /\ last' = Op("firstPage", "ok", "none", f.wrote)
       ELSE /\ gpc' = "error"
            /\ lastWritten' = None
            /\ last' = Op("firstPage", "fail", "none", "none")
            /\ UNCHANGED <<galleryState, button, pendingWrite>>
    /\ UNCHANGED <<now, ticks, storageThrows, sideVars, store, gversion, moreReqs, requests, cmsVars>>

\* Faulty variant of the guards of loadMoreImages(): isLoading is not looked at
LoadMoreStartsNoLock(gs, hasButton) == Truthy(gs.hasMore) /\ hasButton

\* loadMoreImages() up to its await: the guards
LoadMoreStarts(gs, hasButton) ==
    ~(gs.isLoading \/ ~Truthy(gs.hasMore)) /\ hasButton

\* loadMoreImages() called (the button's onclick, or window.loadMoreImages)
LoadMoreImages ==
    /\ GalleryIdle
    /\ gpc # "unloaded"
    /\ IF LoadMoreStarts(galleryState, button)
       THEN /\ galleryState' = [galleryState EXCEPT !.isLoading = TRUE]
            /\ moreReqs' = Append(moreReqs, galleryState.nextCursor)
            /\ last' = Op("loadMore", "started", "none", "none")
       ELSE /\ last' = IF galleryState.isLoading
                       THEN Op("loadMore", "noop", "none", "none")
                       ELSE last
            /\ UNCHANGED <<galleryState, moreReqs>>
    /\ lastWritten' = None
    /\ UNCHANGED <<now, ticks, storageThrows, sideVars, store, gversion, gpc, button, requests, pendingWrite, cmsVars>>

Without(seq, i) == [j \in 1..(Len(seq) - 1) |-> IF j < i THEN seq[j] ELSE seq[j + 1]]

\* Faulty variant of loadMoreImages(): no finally block, a failure leaves
\* isLoading set
LoadMoreResponseNoFinally(i, ok, total) ==
    /\ GalleryIdle
    /\ i \in 1..Len(moreReqs)
    /\ moreReqs' = Without(moreReqs, i)
    /\ IF ok
       THEN LET data == ApiResponse(moreReqs[i], now, total)
                gs == [allImages |-> AppendImages(galleryState.allImages, data.images),
                       nextCursor |-> data.pagination.next_cursor,
                       hasMore |-> data.pagination.has_more,
                       isLoading |-> FALSE]
                payload == CachePayload(gs, data.pagination.total_count)
                w == SetCachedData(store, payload, now, gversion)
            IN /\ galleryState' = gs
               /\ button' = Truthy(gs.hasMore)
               /\ pendingWrite' = w
               /\ lastWritten' = IF w # None THEN Some([data |-> payload, at |-> now])
                                 ELSE None
               /\ last' = Op("moreResponse", "ok", "none", Wrote(w))
       ELSE /\ galleryState' = galleryState
            /\ lastWritten' = None
            /\ last' = Op("moreResponse", "fail", "none", "none")
            /\ UNCHANGED <<button, pendingWrite>>
    /\ UNCHANGED <<now, ticks, storageThrows, sideVars, store, gversion, gpc, requests, cmsVars>>

\* loadMoreImages() after its await, for the request i in flight
LoadMoreResponse(i, ok, total) ==
    /\ GalleryIdle
    /\ i \in 1..Len(moreReqs)
    /\ moreReqs' = Without(moreReqs, i)
    /\ IF ok
       THEN LET data == ApiResponse(moreReqs[i], now, total)
                gs == [allImages |-> AppendImages(galleryState.allImages, data.images),
                       nextCursor |-> data.pagination.next_cursor,
                       hasMore |-> data.pagination.has_more,
                       isLoading |-> FALSE]
                payload == CachePayload(gs, data.pagination.total_count)
                w == SetCachedData(store, payload, now, gversion)
            IN /\ galleryState' = gs
               /\ button' = Truthy(gs.hasMore)
               /\ pendingWrite' = w
               /\ lastWritten' = IF w # None THEN Some([data |-> payload, at |-> now])
                                 ELSE None
               /\ last' = Op("moreResponse", "ok", "none", Wrote(w))
       ELSE /\ galleryState' = [galleryState EXCEPT !.isLoading = FALSE]
            /\ lastWritten' = None
            /\ last' = Op("moreResponse", "fail", "none", "none")
            /\ UNCHANGED <<button, pendingWrite>>
    /\ UNCHANGED <<now, ticks, storageThrows, sideVars, store, gversion, gpc, requests, cmsVars>>

\* setCachedData(): localStorage.setItem(KEY, JSON.stringify(cacheObject))
CommitWrite ==
    /\ pendingWrite # None
    /\ store' = setItem(store, KEY, pendingWrite[1])
    /\ pendingWrite' = None
    /\ UNCHANGED <<now, ticks, storageThrows, sideVars, gversion, galleryState, gpc, button, moreReqs,
                   requests, cmsVars, lastWritten, last>>

----------------------------------------------------------------------------
(* features/cms: dragReorder.js saveImageOrder, and the other mutations *)

\* saveImageOrder() up to its await: the PUT is sent
SaveImageOrder ==
    /\ cpc = "idle"
    /\ Len(invTimes) < MaxReorders
    /\ cpc' = "put"
    /\ ran' = <<>>
    /\ UNCHANGED <<now, ticks, storageThrows, sideVars, store, galleryVars, cversion, invTimes>>
    /\ lastWritten' = None
    /\ UNCHANGED last

\* Faulty variant of saveImageOrder(): the cache is invalidated whatever
\* the response
ReorderResponseAlways(ok) ==
    /\ cpc = "put"
    /\ cpc' = "inv1"
    /\ ran' = IF ok THEN ran ELSE <<"error">>
    /\ UNCHANGED <<now, ticks, storageThrows, sideVars, store, galleryVars, cversion, invTimes>>
    /\ lastWritten' = None
    /\ UNCHANGED last

\* the PUT resolves: response.ok with a readable body, or a non-ok status /
\* a thrown error (of fetchWithCORS or of response.json()), which only
\* shows the error message
ReorderResponse(ok) ==
    /\ cpc = "put"
    /\ cpc' = IF ok THEN "inv1" ELSE "idle"
    /\ ran' = IF ok THEN ran ELSE <<"error">>
    /\ UNCHANGED <<now, ticks, storageThrows, sideVars, store, galleryVars, cversion, invTimes>>
    /\ lastWritten' = None
    /\ UNCHANGED last

StepIndex == CASE cpc = "inv1" -> 1 [] cpc = "inv2" -> 2 [] cpc = "inv3" -> 3 [] OTHER -> 0

NextPc(i) == IF i = 1 THEN "inv2" ELSE IF i = 2 THEN "inv3" ELSE "clear"

\* one statement of window.invalidateGalleryCache()
InvalidateStep ==
    /\ StepIndex > 0
    /\ LET step == InvalidateSteps[StepIndex] IN
       /\ store' = CASE step = "mark" -> InvalidateMark(store, now)
                     [] step = "remove" -> InvalidateRemove(store)
                     [] OTHER -> store
       /\ cversion' = IF step = "bump" THEN InvalidateBump(cversion) ELSE cversion
       /\ ran' = Append(ran, step)
    /\ invTimes' = IF StepIndex = 1 THEN Append(invTimes, now) ELSE invTimes
    /\ cpc' = NextPc(StepIndex)
    /\ UNCHANGED <<now, ticks, storageThrows, sideVars, galleryVars>>
    /\ lastWritten' = None
    /\ UNCHANGED last

\* window.clearGalleryCache() that follows it in saveImageOrder
ClearAfterReorder ==
    /\ cpc = "clear"
    /\ store' = ClearGalleryCache(store)
    /\ ran' = Append(ran, "clear")
    /\ cpc' = "idle"
    /\ UNCHANGED <<now, ticks, storageThrows, sideVars, galleryVars, cversion, invTimes>>
    /\ lastWritten' = None
    /\ UNCHANGED last

\* a successful upload, delete, bulk delete or caption edit:
\* window.clearGalleryCache()
CmsMutation ==
    /\ cpc = "idle"
    /\ store' = ClearGalleryCache(store)
    /\ UNCHANGED <<now, ticks, storageThrows, sideVars, galleryVars, cmsVars>>
    /\ lastWritten' = None
    /\ UNCHANGED last

\* the CMS page is loaded again: its modules are evaluated afresh (a reload
\* that changes nothing of the state modelled here is left out)
CmsReload ==
    /\ cpc = "idle"
    /\ cversion # INITIAL_VERSION
    /\ cversion' = INITIAL_VERSION
    /\ cpc' = "idle"
    /\ UNCHANGED <<now, ticks, storageThrows, sideVars, store, galleryVars, ran, invTimes>>
    /\ lastWritten' = None
    /\ UNCHANGED last

----------------------------------------------------------------------------
(* core/http.js fetchWithRetry (the same code stands in                    *)
(* gallery-carousel.js).  One call at a time is followed: its recursion    *)
(* on `retries`, the fetches it has issued and the delays it has waited.   *)
(* The message of an error is the set of phrases it contains.              *)

RETRY_ATTEMPTS == 3

RETRY_DELAY == 1000

TIMEOUT == 30000

\* What the gallery cache model leaves alone while another module runs
cacheVars == <<now, ticks, store, storageThrows, galleryVars, cmsVars, lastWritten, last>>

Statuses == {200, 404, 500}

Response(status) == [status |-> status, ok |-> status \in 200..299]

\* What fetch() rejects with: the abort of the 30-second timer, a failure
\* to connect, and errors that have nothing to do with the network
FetchErrors ==
    {[name |-> "AbortError", message |-> {"aborted"}],
     [name |-> "TypeError", message |-> {"Failed to fetch"}],
     [name |-> "Error", message |-> {"Network request failed"}],
     [name |-> "Error", message |-> {"other"}]}

\* error.message?.includes(part)
Includes(message, part) == part \in message

IsNetworkError(error) ==
    \/ error.name = "AbortError"
    \/ error.name = "TypeError"
    \/ Includes(error.message, "Failed to fetch")
    \/ Includes(error.message, "NetworkError")
    \/ Includes(error.message, "Network request failed")

\* Faulty variant of the try block: a 5xx response is retried
OnResponseRetries5xx(response, retries) ==
    IF ~response.ok /\ retries > 0 /\ response.status >= 500
    THEN [do |-> "retry", remaining |-> retries - 1]
    ELSE [do |-> "return", value |-> response]

\* fetchWithRetry(): the try block after fetch() resolved with a response
OnResponse(response, retries) ==
    IF ~response.ok /\ retries > 0
    THEN IF response.status >= 400 /\ response.status < 500
         THEN [do |-> "return", value |-> response]
         ELSE [do |-> "return", value |-> response]
    ELSE [do |-> "return", value |-> response]

\* Faulty variant of the catch block: every error is retried
OnErrorRetriesAll(error, retries) ==
    IF retries > 0
    THEN [do |-> "retry", remaining |-> retries - 1]
    ELSE [do |-> "throw", value |-> error]

\* fetchWithRetry(): the catch block
OnError(error, retries) ==
    IF retries > 0 /\ IsNetworkError(error)
    THEN [do |-> "retry", remaining |-> retries - 1]
    ELSE [do |-> "throw",
          value |-> IF IsNetworkError(error)
                    THEN [error EXCEPT !.message = @ \cup {"Network error: Unable to reach"}]
                    ELSE error]

NoCall == [pc |-> "none", initial |-> 0, retries |-> 0, fetches |-> 0,
           waits |-> <<>>, errors |-> <<>>, result |-> None]

\* The step of the call that follows a decision of the try or catch block
Continue(decision) ==
    CASE decision.do = "return" ->
           [http EXCEPT !.pc = "returned", !.result = Some(decision.value)]
      [] decision.do = "throw" ->
           [http EXCEPT !.pc = "thrown", !.result = Some(decision.value)]
      [] decision.do = "retry" ->
           [http EXCEPT !.pc = "waiting", !.retries = decision.remaining]

\* fetchWithRetry(url, options, retries) is called and issues its fetch
FetchWithRetry(retries) ==
    /\ http.pc \in {"none", "returned", "thrown"}
    /\ http' = [pc |-> "fetching", initial |-> retries, retries |-> retries, fetches |-> 1,
                waits |-> <<>>, errors |-> <<>>, result |-> None]
    /\ UNCHANGED <<cacheVars, cors, lightbox>>

\* fetch() resolves with an HTTP response
FetchResponds(status) ==
    /\ http.pc = "fetching"
    /\ http' = Continue(OnResponse(Response(status), http.retries))
    /\ UNCHANGED <<cacheVars, cors, lightbox>>

\* fetch() rejects
FetchRejects(error) ==
    /\ http.pc = "fetching"
    /\ http' = [Continue(OnError(error, http.retries))
                  EXCEPT !.errors = Append(http.errors, error.name)]
    /\ UNCHANGED <<cacheVars, cors, lightbox>>

\* the delay before the recursive call has passed: fetchWithRetry(url,
\* options, remaining) issues its fetch
RetryDelayElapses ==
    /\ http.pc = "waiting"
    /\ http' = [http EXCEPT !.pc = "fetching", !.fetches = @ + 1,
                            !.waits = Append(@, RETRY_DELAY)]
    /\ UNCHANGED <<cacheVars, cors, lightbox>>

NextRetry ==
    \/ \E retries \in 0..RETRY_ATTEMPTS : FetchWithRetry(retries)
    \/ \E status \in Statuses : FetchResponds(status)
    \/ \E error \in FetchErrors : FetchRejects(error)
    \/ RetryDelayElapses

----------------------------------------------------------------------------
(* core/http.js fetchWithCORS, as the CMS calls it: getAuthToken and       *)
(* setAuthToken read and write the stored token, onAuthExpired is showAuth *)
(* (cms/auth/authUI.js), which drops the token and shows the login screen. *)
(* A result is a response or an error; what fetchWithRetry and             *)
(* refreshToken settle with is chosen by the environment.                  *)

Returned(status) == [kind |-> "response", status |-> status]

Threw(message) == [kind |-> "error", message |-> message]

CorsStatuses == {200, 401, 500}

Urls == {"/api/cms/gallery-images/reorder", "/api/cms/login", "/api/cms/refresh"}

NoRequest == [pc |-> "none", token |-> Null, url |-> "none", handlers |-> FALSE,
              callback |-> FALSE, sent |-> <<>>, refreshed |-> "none",
              authExpired |-> FALSE, result |-> None]

\* url.includes('/cms/login') || url.includes('/cms/refresh')
IsAuthEndpoint(url) == url \in {"/api/cms/login", "/api/cms/refresh"}

\* showAuth(): setAuthenticated(false); setToken(null); clearAuthToken()
ShowAuth(c) == [c EXCEPT !.token = Null, !.authExpired = TRUE]

\* "Refresh failed, trigger auth expired callback": onAuthExpired() if
\* given, then throw new Error('Authentication expired. Please login again.')
AuthExpired(c) ==
    [(IF c.callback THEN ShowAuth(c) ELSE c)
        EXCEPT !.pc = "thrown", !.result = Some(Threw("Authentication expired"))]

\* response.status === 401 && !isAuthEndpoint && refreshToken && setAuthToken
NeedsRefresh(status, c) == status = 401 /\ ~IsAuthEndpoint(c.url) /\ c.handlers

\* A login stores a token
Login ==
    /\ cors.pc \in {"none", "returned", "thrown"}
    /\ cors.token = Null
    /\ cors' = [cors EXCEPT !.token = "old"]
    /\ UNCHANGED <<cacheVars, http, lightbox>>

\* fetchWithCORS(url, options, getAuthToken, setAuthToken, refreshToken,
\* onAuthExpired) is called and issues its request, with the stored token
\* in the Authorization header
FetchWithCORS(url, handlers, callback) ==
    /\ cors.pc \in {"none", "returned", "thrown"}
    /\ cors' = [pc |-> "first", token |-> cors.token, url |-> url, handlers |-> handlers,
                callback |-> callback, sent |-> <<cors.token>>, refreshed |-> "none",
                authExpired |-> FALSE, result |-> None]
    /\ UNCHANGED <<cacheVars, http, lightbox>>

\* the request resolves with a response
FirstResponds(status) ==
    /\ cors.pc = "first"
    /\ cors' = IF NeedsRefresh(status, cors)
               THEN [cors EXCEPT !.pc = "refreshing"]
               ELSE [cors EXCEPT !.pc = "returned", !.result = Some(Returned(status))]
    /\ UNCHANGED <<cacheVars, http, lightbox>>

\* the request rejects: the outer catch rethrows
FirstRejects ==
    /\ cors.pc = "first"
    /\ cors' = [cors EXCEPT !.pc = "thrown", !.result = Some(Threw("Network error"))]
    /\ UNCHANGED <<cacheVars, http, lightbox>>

\* if (newToken) { setAuthToken(newToken); ... fetchFn(url, retryOptions) }
Refreshed(c) ==
    [c EXCEPT !.pc = "retrying", !.token = "new", !.refreshed = "token",
              !.sent = Append(@, "new")]

\* refreshToken(currentToken) settles: a new token, null, or an exception
RefreshSettles(outcome) ==
    /\ cors.pc = "refreshing"
    /\ cors' = IF outcome = "token"
               THEN Refreshed(cors)
               ELSE AuthExpired([cors EXCEPT !.refreshed = outcome])
    /\ UNCHANGED <<cacheVars, http, lightbox>>

\* the re-issued request resolves: return await fetchFn(url, retryOptions)
RetryResponds(status) ==
    /\ cors.pc = "retrying"
    /\ cors' = [cors EXCEPT !.pc = "returned", !.result = Some(Returned(status))]
    /\ UNCHANGED <<cacheVars, http, lightbox>>

\* the re-issued request rejects inside the try of the refresh: its catch
\* logs 'Token refresh failed' and the auth-expired path follows
RetryRejects ==
    /\ cors.pc = "retrying"
    /\ cors' = AuthExpired(cors)
    /\ UNCHANGED <<cacheVars, http, lightbox>>

NextCors ==
    \/ Login
    \/ \E url \in Urls, handlers \in BOOLEAN, callback \in BOOLEAN :
          FetchWithCORS(url, handlers, callback)
    \/ \E status \in CorsStatuses : FirstResponds(status)
    \/ FirstRejects
    \/ \E outcome \in {"token", "null", "throws"} : RefreshSettles(outcome)
    \/ \E status \in CorsStatuses : RetryResponds(status)
    \/ RetryRejects

----------------------------------------------------------------------------
(* gallery-lightbox-optimized.js.  The gallery holds NumImages images,     *)
(* indexed from 0.  `shown` is the index of the image in elements.image    *)
(* (-1: none), `error` says that the error message is on display, `loads`  *)
(* are the indices of the Image objects of loadImage whose onload, onerror *)
(* or timeout is still to come, `preloads` those of the preloader.         *)

NumImages == 3

MaxLoads == 2

PRELOAD_COUNT == 2

Indices == 0..(NumImages - 1)

LightboxState == [isOpen |-> FALSE, currentIndex |-> -1, isLoading |-> FALSE,
                  preloadedImages |-> {}, shown |-> -1, error |-> FALSE,
                  loads |-> <<>>, preloads |-> {}]

\* imageLoader.loadImage(index), up to the return of its promise
LoadImage(lb, index) ==
    IF lb.isLoading THEN lb
    ELSE IF index \notin Indices THEN lb
    ELSE IF index \in lb.preloadedImages
    THEN [lb EXCEPT !.shown = index, !.error = FALSE, !.isLoading = FALSE]
    ELSE [lb EXCEPT !.isLoading = TRUE, !.error = FALSE, !.loads = Append(@, index)]

\* preloader.preloadAdjacent(currentIndex): the indices it starts to load
Adjacent(lb, currentIndex) ==
    {i \in Indices :
        /\ \E d \in 1..PRELOAD_COUNT :
              \/ i = (currentIndex - d + NumImages) % NumImages
              \/ i = (currentIndex + d) % NumImages
        /\ i # currentIndex
        /\ i \notin lb.preloadedImages}

\* lightbox.open(imageUrl, imageIndex, imagesArray), as window.openLightbox
\* calls it after validating the index
Open(imageIndex) ==
    /\ Len(lightbox.loads) < MaxLoads
    /\ lightbox' = LoadImage([lightbox EXCEPT !.currentIndex = imageIndex, !.isOpen = TRUE],
                             imageIndex)
    /\ UNCHANGED <<cacheVars, http, cors>>

\* lightbox.close()
Close ==
    /\ lightbox.isOpen
    /\ lightbox' = [lightbox EXCEPT !.isOpen = FALSE, !.isLoading = FALSE]
    /\ UNCHANGED <<cacheVars, http, cors>>

\* navigation.goTo(index)
GoTo(lb, index) ==
    IF lb.isLoading \/ index \notin Indices THEN lb
    ELSE LoadImage([lb EXCEPT !.currentIndex = index], index)

\* navigation.next() or navigation.previous(), by key, button or swipe
Navigate(step) ==
    /\ lightbox.isOpen
    /\ Len(lightbox.loads) < MaxLoads
    /\ lightbox' = IF lightbox.isLoading THEN lightbox
                   ELSE GoTo(lightbox, (lightbox.currentIndex + step + NumImages) % NumImages)
    /\ lightbox' # lightbox
    /\ UNCHANGED <<cacheVars, http, cors>>

\* img.onload of the k-th load under way: the image is cached and
\* displayed, isLoading reset, and the promise resolves into
\* preloadAdjacent(index)
LoadCompletes(k) ==
    /\ k \in 1..Len(lightbox.loads)
    /\ LET index == lightbox.loads[k]
           lb == [lightbox EXCEPT !.preloadedImages = @ \cup {index},
                                  !.shown = index,
                                  !.isLoading = FALSE,
                                  !.loads = Without(@, k)]
       IN lightbox' = [lb EXCEPT !.preloads = @ \cup Adjacent(lb, index)]
    /\ UNCHANGED <<cacheVars, http, cors>>

\* img.onerror or the load timeout of the k-th load under way
LoadFails(k) ==
    /\ k \in 1..Len(lightbox.loads)
    /\ lightbox' = [lightbox EXCEPT !.isLoading = FALSE, !.error = TRUE,
                                    !.loads = Without(@, k)]
    /\ UNCHANGED <<cacheVars, http, cors>>

\* a preload settles: cached on load, dropped on error or timeout
PreloadSettles(i, ok) ==
    /\ i \in lightbox.preloads
    /\ lightbox' = [lightbox EXCEPT !.preloads = @ \ {i},
                                    !.preloadedImages = IF ok THEN @ \cup {i} ELSE @]
    /\ UNCHANGED <<cacheVars, http, cors>>

NextLightbox ==
    \/ \E imageIndex \in Indices : Open(imageIndex)
    \/ Close
    \/ \E step \in {-1, 1} : Navigate(step)
    \/ \E k \in 1..Len(lightbox.loads) : LoadCompletes(k)
    \/ \E k \in 1..Len(lightbox.loads) : LoadFails(k)
    \/ \E i \in Indices, ok \in BOOLEAN : PreloadSettles(i, ok)

----------------------------------------------------------------------------
(* Time *)

\* The clock advances between tasks; while setCachedData of the gallery page
\* is between its check and its setItem only a millisecond can pass, and the
\* statements of invalidateGalleryCache run within one reading of the clock.
Tick(d) ==
    /\ ticks < MaxTicks
    /\ cpc \in {"idle", "put"}
    /\ d \in IF pendingWrite # None THEN ShortDelays ELSE Delays
    /\ now' = now + d
    /\ ticks' = ticks + 1
    /\ UNCHANGED <<store, storageThrows, sideVars, galleryVars, cmsVars>>
    /\ UNCHANGED <<lastWritten, last>>

----------------------------------------------------------------------------

Init ==
    /\ now = 0
    /\ ticks = 0
    /\ store = [k \in {KEY, REORDER_TIMESTAMP_KEY} |-> None]
    /\ storageThrows = {}
    /\ gversion = INITIAL_VERSION
    /\ galleryState = ResetState
    /\ gpc = "unloaded"
    /\ button = FALSE
    /\ moreReqs = <<>>
    /\ requests = 0
    /\ pendingWrite = None
    /\ cversion = INITIAL_VERSION
    /\ cpc = "idle"
    /\ ran = <<>>
    /\ invTimes = <<>>
    /\ lastWritten = None
    /\ last = Op("init", "none", "none", "none")
    /\ http = NoCall
    /\ cors = NoRequest
    /\ lightbox = LightboxState

Next ==
    \/ \E d \in Delays \cup ShortDelays : Tick(d)
    \/ PageLoad
    \/ \E ok \in BOOLEAN, total \in TotalCounts : FirstPageResponse(ok, total)
    \/ LoadMoreImages
    \/ \E i \in 1..Len(moreReqs), ok \in BOOLEAN, total \in TotalCounts :
          LoadMoreResponse(i, ok, total)
    \/ CommitWrite
    \/ SaveImageOrder
    \/ \E ok \in BOOLEAN : ReorderResponse(ok)
    \/ InvalidateStep
    \/ ClearAfterReorder
    \/ CmsMutation

Spec == Init /\ [][Next]_vars

\* The same with reloads of the CMS page, which only reset its CACHE_VERSION
NextReload == Next \/ CmsReload

SpecReload == Init /\ [][NextReload]_vars

----------------------------------------------------------------------------
(* The same program on other clocks: the handlers are those of Next, the  *)
(* clock advances between tasks by a delay of the scenario at hand.       *)

\* 30 s and 40 s: 30 s, 60 s and 70 s after a reorder
WindowDelays == {30000, 40000}

\* The clock advances by d between two tasks
Elapse(d) ==
    /\ ticks < MaxTicks
    /\ cpc \in {"idle", "put"}
    /\ pendingWrite = None
    /\ now' = now + d
    /\ ticks' = ticks + 1
    /\ UNCHANGED <<store, storageThrows, sideVars, galleryVars, cmsVars, lastWritten, last>>

\* 10 min and 7 min: ages of 7, 10, 14 and 17 minutes
AgeDelays == {600000, 420000}

NextAges ==
    \/ \E d \in AgeDelays : Elapse(d)
    \/ PageLoad
    \/ \E ok \in BOOLEAN, total \in TotalCounts : FirstPageResponse(ok, total)
    \/ LoadMoreImages
    \/ \E i \in 1..Len(moreReqs), ok \in BOOLEAN, total \in TotalCounts :
          LoadMoreResponse(i, ok, total)
    \/ CommitWrite
    \/ SaveImageOrder
    \/ \E ok \in BOOLEAN : ReorderResponse(ok)
    \/ InvalidateStep
    \/ ClearAfterReorder
    \/ CmsMutation

SpecAges == Init /\ [][NextAges]_vars

NextWindow ==
    \/ \E d \in WindowDelays : Elapse(d)
    \/ PageLoad
    \/ \E ok \in BOOLEAN, total \in TotalCounts : FirstPageResponse(ok, total)
    \/ LoadMoreImages
    \/ \E i \in 1..Len(moreReqs), ok \in BOOLEAN, total \in TotalCounts :
          LoadMoreResponse(i, ok, total)
    \/ CommitWrite
    \/ SaveImageOrder
    \/ \E ok \in BOOLEAN : ReorderResponse(ok)
    \/ InvalidateStep
    \/ ClearAfterReorder
    \/ CmsMutation

SpecWindow == Init /\ [][NextWindow]_vars

----------------------------------------------------------------------------
(* Storage that throws, stored values that are not JSON.  localStorage    *)
(* methods throw when storage is disabled (all of them) or full           *)
(* (setItem).  The modular code reaches localStorage through the          *)
(* try/catch wrappers of core/storage.js, the legacy gallery-api.js calls *)
(* it directly.  A result is [thrown, val, store].                        *)

AllMethods == {"getItem", "setItem", "removeItem"}

\* a stored string JSON.parse rejects
Malformed == [garbage |-> "{"]

CanParse(str) == "text" \in DOMAIN str

LocalStorageGetItem(s, k, th) ==
    [thrown |-> "getItem" \in th, val |-> s[k], store |-> s]

LocalStorageSetItem(s, k, v, th) ==
    [thrown |-> "setItem" \in th, val |-> None,
     store |-> IF "setItem" \in th THEN s ELSE [s EXCEPT ![k] = Some(v)]]

LocalStorageRemoveItem(s, k, th) ==
    [thrown |-> "removeItem" \in th, val |-> None,
     store |-> IF "removeItem" \in th THEN s ELSE [s EXCEPT ![k] = None]]

\* what a catch block makes of a result that has thrown
Caught(r, s) == IF r.thrown THEN [thrown |-> FALSE, val |-> None, store |-> s] ELSE r

\* getItem / setItem / removeItem as the implementation calls them
StorageGet(impl, s, k, th) ==
    IF impl = "modular" THEN Caught(LocalStorageGetItem(s, k, th), s)
    ELSE LocalStorageGetItem(s, k, th)

StorageSet(impl, s, k, v, th) ==
    IF impl = "modular" THEN Caught(LocalStorageSetItem(s, k, v, th), s)
    ELSE LocalStorageSetItem(s, k, v, th)

StorageRemove(impl, s, k, th) ==
    IF impl = "modular" THEN Caught(LocalStorageRemoveItem(s, k, th), s)
    ELSE LocalStorageRemoveItem(s, k, th)

Outcome(thrown, ret, s, why) == [thrown |-> thrown, ret |-> ret, store |-> s, why |-> why]

\* a removeItem of the entry followed by return null
RemoveAndReturnNull(impl, s, th, why) ==
    LET rm == StorageRemove(impl, s, KEY, th) IN
    IF rm.thrown THEN Outcome(TRUE, None, s, "thrown")
    ELSE Outcome(FALSE, None, rm.store, why)

\* Faulty variant of the try block of getCachedData(): no look at the window
GetCachedDataTryNoWindow(impl, s, t, ver, th) ==
    LET m == StorageGet(impl, s, REORDER_TIMESTAMP_KEY, th)
        c == StorageGet(impl, s, KEY, th)
    IN
    IF m.thrown THEN Outcome(TRUE, None, s, "thrown")
    ELSE IF c.thrown THEN Outcome(TRUE, None, s, "thrown")
    ELSE IF c.val = None THEN Outcome(FALSE, None, s, "absent")
    ELSE IF ~CanParse(c.val[1]) THEN Outcome(TRUE, None, s, "thrown")
    ELSE LET parsed == JsonParse(c.val[1]) IN
         IF parsed.version # ver
         THEN RemoveAndReturnNull(impl, s, th, "version")
         ELSE IF m.val # None /\ parsed.timestamp < m.val[1]
         THEN RemoveAndReturnNull(impl, s, th, "stale")
         ELSE IF t - parsed.timestamp > TTL
         THEN RemoveAndReturnNull(impl, s, th, "expired")
         ELSE Outcome(FALSE, Some([data |-> parsed.data,
                                   timestamp |-> parsed.timestamp,
                                   age |-> t - parsed.timestamp]), s, "hit")

\* the try block of getCachedData()
GetCachedDataTry(impl, s, t, ver, th) ==
    LET m == StorageGet(impl, s, REORDER_TIMESTAMP_KEY, th)
        c == StorageGet(impl, s, KEY, th)
    IN
    IF m.thrown THEN Outcome(TRUE, None, s, "thrown")
    ELSE IF m.val # None /\ t - m.val[1] < SUPPRESSION_MS
    THEN Outcome(FALSE, None, s, "window")
    ELSE IF c.thrown THEN Outcome(TRUE, None, s, "thrown")
    ELSE IF c.val = None THEN Outcome(FALSE, None, s, "absent")
    ELSE IF ~CanParse(c.val[1]) THEN Outcome(TRUE, None, s, "thrown")
    ELSE LET parsed == JsonParse(c.val[1]) IN
         IF parsed.version # ver
         THEN RemoveAndReturnNull(impl, s, th, "version")
         ELSE IF m.val # None /\ parsed.timestamp < m.val[1]
         THEN RemoveAndReturnNull(impl, s, th, "stale")
         ELSE IF t - parsed.timestamp > TTL
         THEN RemoveAndReturnNull(impl, s, th, "expired")
         ELSE Outcome(FALSE, Some([data |-> parsed.data,
                                   timestamp |-> parsed.timestamp,
                                   age |-> t - parsed.timestamp]), s, "hit")

\* Faulty variant of the catch block of getCachedData(): null, no removal
GetCachedDataCatchKeeps(impl, s, th) == Outcome(FALSE, None, s, "caught")

\* the catch block of getCachedData(): removeItem, return null
GetCachedDataCatch(impl, s, th) == RemoveAndReturnNull(impl, s, th, "caught")

\* getCachedData() on any storage
GetCachedDataOn(impl, s, t, ver, th) ==
    LET r == GetCachedDataTry(impl, s, t, ver, th) IN
    IF r.thrown THEN GetCachedDataCatch(impl, s, th) ELSE r

\* setCachedData() on any storage: whatever throws inside is caught
SetCachedDataOn(impl, s, data, t, ver, th) ==
    LET m == StorageGet(impl, s, REORDER_TIMESTAMP_KEY, th)
        w == StorageSet(impl, s, KEY,
                        JsonStringify([data |-> data, timestamp |-> t, version |-> ver]), th)
    IN
    IF m.thrown THEN Outcome(FALSE, None, s, "caught")
    ELSE IF m.val # None /\ t - m.val[1] < SUPPRESSION_MS
    THEN Outcome(FALSE, None, s, "blocked")
    ELSE IF w.thrown THEN Outcome(FALSE, None, s, "caught")
    ELSE Outcome(FALSE, None, w.store,
                 IF w.store = s /\ "setItem" \in th THEN "failed" ELSE "stored")

\* clearGalleryCache() on any storage
ClearGalleryCacheOn(impl, s, th) ==
    LET rm == StorageRemove(impl, s, KEY, th) IN
    Outcome(rm.thrown, None, rm.store, IF rm.thrown THEN "thrown" ELSE "cleared")

\* invalidateGalleryCache() on any storage: [thrown, store, version]
InvalidateGalleryCacheOn(impl, s, t, ver, th) ==
    LET mk == StorageSet(impl, s, REORDER_TIMESTAMP_KEY, t, th)
        rm == StorageRemove(impl, mk.store, KEY, th)
    IN
    IF mk.thrown THEN [thrown |-> TRUE, store |-> s, version |-> ver]
    ELSE IF rm.thrown THEN [thrown |-> TRUE, store |-> mk.store, version |-> ver + 1]
    ELSE [thrown |-> FALSE, store |-> rm.store, version |-> ver + 1]

\* A page load of the gallery page on any storage: renderGallery up to its
\* first await, the whole of it on a cache hit, its catch block when
\* getCachedData throws
PageLoadOn(impl) ==
    LET r == GetCachedDataOn(impl, store, now, INITIAL_VERSION, storageThrows) IN
    /\ gversion' = INITIAL_VERSION
    /\ moreReqs' = <<>>
    /\ pendingWrite' = None
    /\ lastWritten' = None
    /\ IF r.thrown
       THEN /\ store' = r.store
            /\ galleryState' = ResetState
            /\ button' = FALSE
            /\ gpc' = "error"
            /\ requests' = 0
            /\ last' = Op("pageLoad", "thrown", r.why, "none")
       ELSE IF r.ret # None
       THEN LET f == RenderFirstPage(r.ret[1].data, TRUE, r.ret[1].age,
                                     r.store, now, INITIAL_VERSION)
                w == SetCachedDataOn(impl, r.store, f.payload[1], now,
                                     INITIAL_VERSION, storageThrows)
            IN
            /\ store' = IF f.payload # None THEN w.store ELSE r.store
            /\ galleryState' = f.gs
            /\ button' = f.button
            /\ gpc' = "ready"
            /\ requests' = 0
            /\ last' = Op("pageLoad", "cache", r.why,
                          IF f.payload # None THEN w.why ELSE "none")
       ELSE /\ store' = r.store
            /\ galleryState' = ResetState
            /\ button' = FALSE
            /\ gpc' = "fetching"
            /\ requests' = 1
            /\ last' = Op("pageLoad", "network", r.why, "none")
    /\ UNCHANGED <<now, ticks, storageThrows, sideVars, cmsVars>>

\* The first-page request resolves, on any storage
FirstPageResponseOn(impl, ok) ==
    /\ gpc = "fetching"
    /\ IF ok
       THEN LET f == RenderFirstPage(ApiResponse(Null, now, "total"), FALSE, 0,
                                     store, now, gversion)
                w == SetCachedDataOn(impl, store, f.payload[1], now, gversion,
                                     storageThrows)
            IN
            /\ store' = w.store
            /\ galleryState' = f.gs
            /\ button' = f.button
            /\ gpc' = "ready"
            /\ last' = Op("firstPage", "ok", "none", w.why)
       ELSE /\ gpc' = "error"
            /\ last' = Op("firstPage", "fail", "none", "none")
            /\ UNCHANGED <<store, galleryState, button>>
    /\ UNCHANGED <<now, ticks, storageThrows, sideVars, gversion, moreReqs, requests,
                   pendingWrite, lastWritten, cmsVars>>

\* window.clearGalleryCache() called by a CMS handler, on any storage
ClearOn(impl) ==
    LET r == ClearGalleryCacheOn(impl, store, storageThrows) IN
    /\ store' = r.store
    /\ last' = Op("clear", IF r.thrown THEN "thrown" ELSE "ok", r.why, "none")
    /\ UNCHANGED <<now, ticks, storageThrows, sideVars, galleryVars, cmsVars, lastWritten>>

\* window.invalidateGalleryCache() called by saveImageOrder, on any storage
InvalidateOn(impl) ==
    LET r == InvalidateGalleryCacheOn(impl, store, now, cversion, storageThrows) IN
    /\ Len(invTimes) < MaxReorders
    /\ store' = r.store
    /\ cversion' = r.version
    /\ invTimes' = Append(invTimes, now)
    /\ last' = Op("invalidate", IF r.thrown THEN "thrown" ELSE "ok", "none", "none")
    /\ UNCHANGED <<now, ticks, storageThrows, sideVars, galleryVars, cpc, ran, lastWritten>>

\* The environment: storage starts or stops throwing; the stored value is
\* overwritten with something that is not JSON
StorageChanges(th) ==
    /\ th # storageThrows
    /\ storageThrows' = th
    /\ UNCHANGED sideVars
    /\ UNCHANGED <<now, ticks, store, galleryVars, cmsVars, lastWritten, last>>

Corrupt ==
    /\ store[KEY] # Some(Malformed)
    /\ store' = [store EXCEPT ![KEY] = Some(Malformed)]
    /\ UNCHANGED <<now, ticks, storageThrows, sideVars, galleryVars, cmsVars, lastWritten, last>>

FaultsNext(impl) ==
    \/ \E d \in Delays : Elapse(d)
    \/ PageLoadOn(impl)
    \/ \E ok \in BOOLEAN : FirstPageResponseOn(impl, ok)
    \/ ClearOn(impl)
    \/ InvalidateOn(impl)
    \/ \E th \in {{}, {"setItem"}, AllMethods} : StorageChanges(th)
    \/ Corrupt

\* the modular code (galleryCache.js over core/storage.js)
SpecFaults == Init /\ [][FaultsNext("modular")]_vars

\* the legacy gallery-api.js
SpecLegacy == Init /\ [][FaultsNext("legacy")]_vars

----------------------------------------------------------------------------
(* features/gallery/galleryApi.js: what the server sent.  A JSON value is  *)
(* [t, v] with t its kind; the body of a response is one of Shapes.        *)

Obj(r) == [t |-> "object", v |-> r]

Arr(s) == [t |-> "array", v |-> s]

Str(x) == [t |-> "string", v |-> x]

NullValue == [t |-> "null"]

UndefinedValue == [t |-> "undefined"]

Shapes == {"valid", "noImages", "imagesString", "noPagination", "paginationNull",
           "paginationString", "bodyNull", "bodyString"}

\* The body of the response to a request for the page at cursor
ResponseBody(cursor, t, total, shape) ==
    LET data == ApiResponse(cursor, t, total)
        images == Arr(data.images)
        pagination == Obj(data.pagination)
    IN CASE shape = "valid" -> Obj([images |-> images, pagination |-> pagination])
         [] shape = "noImages" -> Obj([pagination |-> pagination])
         [] shape = "imagesString" -> Obj([images |-> Str("x"), pagination |-> pagination])
         [] shape = "noPagination" -> Obj([images |-> images])
         [] shape = "paginationNull" -> Obj([images |-> images, pagination |-> NullValue])
         [] shape = "paginationString" -> Obj([images |-> images, pagination |-> Str("x")])
         [] shape = "bodyNull" -> NullValue
         [] shape = "bodyString" -> Str("x")

\* !value
Falsy(value) == value.t \in {"null", "undefined"} \/ (value.t = "string" /\ value.v = "")

\* typeof value === 'object'
TypeofObject(value) == value.t \in {"object", "array", "null"}

\* data.name of a value that passed `!data || typeof data !== 'object'`
Member(data, name) ==
    IF data.t = "object" /\ name \in DOMAIN data.v THEN data.v[name] ELSE UndefinedValue

\* Faulty variant of the validation in fetchGalleryImages(): pagination is
\* not looked at
ValidResponseNoPagination(data) ==
    /\ ~(Falsy(data) \/ ~TypeofObject(data))
    /\ ~(Falsy(Member(data, "images")) \/ Member(data, "images").t # "array")

\* fetchGalleryImages(): the three checks of the parsed body, each of which
\* throws; TRUE when none does
ValidResponse(data) ==
    /\ ~(Falsy(data) \/ ~TypeofObject(data))
    /\ ~(Falsy(Member(data, "images")) \/ Member(data, "images").t # "array")
    /\ ~(Falsy(Member(data, "pagination")) \/ ~TypeofObject(Member(data, "pagination")))

\* fetchGalleryImages() resolves for a response of the given status and
\* body: it throws on !response.ok and on a body that fails a check
FetchResolves(httpOk, data) == httpOk /\ ValidResponse(data)

\* The first-page request is answered with a body of the given shape
FirstPageArrives(httpOk, shape, total) ==
    FirstPageResponse(FetchResolves(httpOk, ResponseBody(Null, now, total, shape)), total)

\* A load-more request is answered with a body of the given shape
LoadMoreArrives(i, httpOk, shape, total) ==
    /\ i \in 1..Len(moreReqs)
    /\ LoadMoreResponse(i, FetchResolves(httpOk, ResponseBody(moreReqs[i], now, total, shape)),
                        total)

\* fetchWithRetry on its own
SpecRetry == Init /\ [][NextRetry]_vars

----------------------------------------------------------------------------
(* getCachedData as a function of what it finds: the store, the clock and  *)
(* the implementation are drawn from sets, and a page load reads.          *)

ReadTimes == {100000, 130000, 1100000}

StoredMarkers == {None, Some(0), Some(50000), Some(100000), Some(1090000)}

StoredEntries ==
    {None, Some(Malformed)}
      \cup {Some(JsonStringify([data |-> CachePayload(
                                    [allImages |-> ApiResponse(Null, ts, "total").images,
                                     nextCursor |-> Cursor(2), hasMore |-> "true",
                                     isLoading |-> FALSE], "total"),
                                timestamp |-> ts, version |-> ver])) :
              ts \in {0, 40000, 90000}, ver \in {INITIAL_VERSION, INITIAL_VERSION + 1}}

InitRead ==
    /\ now \in ReadTimes
    /\ ticks = 0
    /\ store \in {[k \in {KEY, REORDER_TIMESTAMP_KEY} |->
                     IF k = KEY THEN entry ELSE marker] :
                  entry \in StoredEntries, marker \in StoredMarkers}
    /\ Marker(store) # None => Marker(store)[1] <= now
    /\ storageThrows = {}
    /\ gversion = INITIAL_VERSION
    /\ galleryState = ResetState
    /\ gpc = "unloaded"
    /\ button = FALSE
    /\ moreReqs = <<>>
    /\ requests = 0
    /\ pendingWrite = None
    /\ cversion = INITIAL_VERSION
    /\ cpc = "idle"
    /\ ran = <<>>
    /\ invTimes = <<>>
    /\ lastWritten = None
    /\ last = Op("init", "none", "none", "none")
    /\ http = NoCall
    /\ cors = NoRequest
    /\ lightbox = LightboxState

NextRead == \E impl \in {"modular", "legacy"} : PageLoadOn(impl)

SpecRead == InitRead /\ [][NextRead]_vars

----------------------------------------------------------------------------
(* The gallery page on its own, no CMS page open.  A request that was sent *)
(* is answered or fails in the end: fetchWithRetry aborts a fetch after    *)
(* TIMEOUT and gives up after RETRY_ATTEMPTS retries.                       *)

NextGallery ==
    \/ \E d \in Delays \cup ShortDelays : Tick(d)
    \/ PageLoad
    \/ \E httpOk \in BOOLEAN, shape \in Shapes, total \in TotalCounts :
          FirstPageArrives(httpOk, shape, total)
    \/ LoadMoreImages
    \/ \E i \in 1..Len(moreReqs), httpOk \in BOOLEAN, shape \in Shapes, total \in TotalCounts :
          LoadMoreArrives(i, httpOk, shape, total)
    \/ CommitWrite

\* Some load-more request in flight settles
LoadMoreSettles ==
    \E i \in 1..Len(moreReqs), httpOk \in BOOLEAN, shape \in Shapes, total \in TotalCounts :
        LoadMoreArrives(i, httpOk, shape, total)

SpecGallery ==
    Init /\ [][NextGallery]_vars /\ WF_vars(LoadMoreSettles) /\ WF_vars(CommitWrite)

\* fetchWithCORS on its own
SpecCors == Init /\ [][NextCors]_vars

\* the lightbox on its own
SpecLightbox == Init /\ [][NextLightbox]_vars

----------------------------------------------------------------------------
(* Properties of the gallery cache *)

\* The parsed cache entry of a storage that has one
Entry(s) == JsonParse(getItem(s, KEY)[1])

HasEntry(s) == getItem(s, KEY) # None

\* A call of setCachedData: renderGallery after a network fetch (or on its
\* recache path) and loadMoreImages after a page has arrived
WriteCall ==
    \/ \E total \in TotalCounts : FirstPageResponse(TRUE, total)
    \/ \E i \in 1..Len(moreReqs), total \in TotalCounts : LoadMoreResponse(i, TRUE, total)
    \/ PageLoad /\ last'.wrote # "none"

\* C1: a setCachedData call made while a reorder marker exists and is less
\* than 60 seconds old writes nothing: localStorage is as it was and no
\* setItem follows.
C1_WriteSuppressedInWindow ==
    [][WriteCall /\ RecentReorder(store, now)
         => store' = store /\ pendingWrite' = None /\ last'.wrote = "blocked"]_vars

\* a write call has just been skipped inside the window of a marker
C1_Witness ==
    /\ last.wrote = "blocked"
    /\ RecentReorder(store, now)
    /\ gpc = "ready"

\* The stored entry carries a timestamp earlier than the reorder marker
EntryOlderThanMarker(s) ==
    HasEntry(s) /\ Marker(s) # None /\ Entry(s).timestamp < Marker(s)[1]

\* C2 as stated: whenever the entry is older than the marker, a read (the
\* getCachedData call of a page load) returns nothing and the entry is
\* deleted, inside the 60-second window as well as after it.
C2_StaleReadDeletesAlways ==
    [][PageLoad /\ EntryOlderThanMarker(store)
         => last'.res = "network" /\ ~HasEntry(store')]_vars

\* C2: whenever the entry is older than the marker a read returns nothing,
\* however long after the reorder; the entry is deleted by a read made 60
\* seconds or more after the marker, and a read inside the 60 seconds
\* leaves localStorage as it is.
C2_StaleReadMisses ==
    [][PageLoad /\ EntryOlderThanMarker(store)
         => /\ last'.res = "network"
            /\ gpc' = "fetching"
            /\ IF RecentReorder(store, now)
               THEN store' = store
               ELSE ~HasEntry(store') /\ Marker(store') = Marker(store)]_vars

\* a read has just deleted an entry for being older than the marker
C2_Witness ==
    /\ last.op = "pageLoad"
    /\ last.why = "stale"
    /\ ~HasEntry(store)
    /\ Marker(store) # None

C4_NothingOlderThanReorderCached ==
    HasEntry(store) /\ Marker(store) # None /\ Entry(store).timestamp >= Marker(store)[1]
        => \A i \in 1..Len(Entry(store).data.images) :
               Entry(store).data.images[i].at >= Marker(store)[1]

\* C5: once the marker exists it stays; its value changes only in a
\* statement of invalidateGalleryCache, and then not to a smaller one.
C5_MarkerOnlyAdvances ==
    [][Marker(store) # None
         => /\ Marker(store') # None
            /\ (Marker(store') # Marker(store)
                  => InvalidateStep /\ Marker(store')[1] >= Marker(store)[1])]_vars

\* two invalidations at different times, and a cache write after the second
C5_Witness ==
    /\ Len(invTimes) = 2
    /\ invTimes[1] < invTimes[2]
    /\ Marker(store) = Some(invTimes[2])
    /\ HasEntry(store)

\* The reorder-success path has run the statement
Ran(step) == \E i \in 1..Len(ran) : ran[i] = step

\* C6: in the reorder-success path the marker is written before anything
\* is cleared: once the path has run a removal of the cache entry, it has
\* written the marker, and the marker holds the time of this invalidation.
C6_MarkerBeforeClearing ==
    Ran("remove") \/ Ran("clear")
        => /\ Ran("mark")
           /\ invTimes # <<>>
           /\ Marker(store) = Some(invTimes[Len(invTimes)])

\* the path stands between the removal in invalidateGalleryCache and
\* clearGalleryCache, the entry of an earlier page load gone
C6_Witness ==
    /\ cpc = "clear"
    /\ Ran("remove")
    /\ ~HasEntry(store)
    /\ gpc = "ready"

\* The stored entry is older than the TTL
Expired(s, t) == HasEntry(s) /\ t - Entry(s).timestamp > TTL

\* C7 as stated: every read of an entry older than 15 minutes returns
\* nothing and deletes the entry.
C7_ExpiredReadDeletesAlways ==
    [][PageLoad /\ Expired(store, now)
         => last'.res = "network" /\ ~HasEntry(store')]_vars

\* C7: a read of an entry older than 15 minutes returns nothing; it
\* deletes the entry unless it is made within 60 seconds of the reorder
\* marker, when localStorage is left as it is.  An entry of the page's
\* version, not older than the marker and exactly 15 minutes old is served.
C7_ExpiredReadMisses ==
    [][PageLoad
         => /\ Expired(store, now)
                 => /\ last'.res = "network"
                    /\ IF RecentReorder(store, now)
                       THEN store' = store
                       ELSE ~HasEntry(store')
            /\ (/\ HasEntry(store)
                /\ now - Entry(store).timestamp = TTL
                /\ Entry(store).version = INITIAL_VERSION
                /\ ~RecentReorder(store, now)
                /\ ~EntryOlderThanMarker(store))
                 => last'.res = "cache" /\ store' = store]_vars

\* a read has just deleted an entry for its age
C7_Witness ==
    /\ last.op = "pageLoad"
    /\ last.why = "expired"
    /\ ~HasEntry(store)

\* Two payloads are the same to JavaScript: the same images, and every
\* pagination property reads the same
SameData(a, b) ==
    /\ a.images = b.images
    /\ \A k \in {"next_cursor", "has_more", "total_count"} :
           Prop(a.pagination, k) = Prop(b.pagination, k)

\* C8: a read that follows a write of payload p with nothing but the
\* passing of at most 15 minutes in between returns data that is p.
C8_RoundTrip ==
    [][PageLoad /\ lastWritten # None /\ now - lastWritten[1].at <= TTL
         => /\ last'.res = "cache"
            /\ GetCachedData(store, now, INITIAL_VERSION).ret # None
            /\ SameData(GetCachedData(store, now, INITIAL_VERSION).ret[1].data,
                        lastWritten[1].data)
            /\ galleryState'.allImages = lastWritten[1].data.images
            /\ galleryState'.nextCursor = lastWritten[1].data.pagination.next_cursor
            /\ galleryState'.hasMore = lastWritten[1].data.pagination.has_more]_vars

\* a payload of two pages, the last one, without total_count has been
\* written and read back
C8_Witness ==
    /\ last.op = "pageLoad"
    /\ last.res = "cache"
    /\ lastWritten # None
    /\ lastWritten[1].data.pagination.total_count = Undefined
    /\ lastWritten[1].data.pagination.next_cursor = Null
    /\ Len(galleryState.allImages) = 2

\* C9: every call of invalidateGalleryCache ends with the entry absent and
\* the marker at the time of that call, and a setCachedData call is
\* skipped exactly when less than 60 seconds have passed since the latest
\* invalidateGalleryCache call.
C9_WindowFromLatestCall ==
    [][/\ InvalidateStep /\ cpc = "inv3"
           => ~HasEntry(store') /\ Marker(store') = Some(invTimes'[Len(invTimes')])
       /\ WriteCall /\ invTimes # <<>>
           => (pendingWrite' = None <=> now - invTimes[Len(invTimes)] < SUPPRESSION_MS)
      ]_vars

\* two calls less than 60 seconds apart, and a write that went through 60
\* seconds after the second
C9_Witness ==
    /\ Len(invTimes) = 2
    /\ invTimes[1] < invTimes[2]
    /\ invTimes[2] - invTimes[1] < SUPPRESSION_MS
    /\ last.wrote = "stored"
    /\ pendingWrite # None
    /\ now - invTimes[2] >= SUPPRESSION_MS
    /\ now - invTimes[1] < 2 * SUPPRESSION_MS

\* C10: never more than one load-more request in flight, and a call of
\* loadMoreImages while one is in flight sends nothing and changes neither
\* the in-memory state nor localStorage.
C10_OneLoadMoreInFlight ==
    [][/\ Len(moreReqs') <= 1
       /\ LoadMoreImages /\ Len(moreReqs) > 0
           => /\ moreReqs' = moreReqs
              /\ galleryState' = galleryState
              /\ store' = store
              /\ pendingWrite' = pendingWrite
              /\ button' = button]_vars

\* loadMoreImages has just been called with a request in flight
C10_Witness ==
    /\ last.op = "loadMore"
    /\ last.res = "noop"
    /\ Len(moreReqs) = 1
    /\ galleryState.isLoading

\* C11: with a reorder marked at 0, a setCachedData call at 30 s is
\* skipped and one at 70 s stores an entry with timestamp 70 s; whatever
\* the marker, a call made 60 s or more after it prepares an entry with
\* the time of the call, which the setItem that follows stores.
C11_WriteAfterWindow ==
    [][/\ WriteCall /\ Marker(store) = Some(0) /\ now = 30000
           => pendingWrite' = None /\ store' = store
       /\ WriteCall /\ Marker(store) = Some(0) /\ now = 70000
           => pendingWrite' # None /\ JsonParse(pendingWrite'[1]).timestamp = 70000
       /\ WriteCall /\ Marker(store) # None /\ now - Marker(store)[1] >= 60000
           => pendingWrite' # None /\ JsonParse(pendingWrite'[1]).timestamp = now
       /\ CommitWrite => getItem(store', KEY) = pendingWrite]_vars

\* reorder at 0, first page arrived at 30 s and was not cached, page two
\* arrived at 70 s and the entry of that time is stored
C11_Witness ==
    /\ Marker(store) = Some(0)
    /\ now = 70000
    /\ HasEntry(store)
    /\ Entry(store).timestamp = 70000
    /\ Entry(store).data.images[1].at = 30000

ServableButForAge(s, t) ==
    /\ HasEntry(s)
    /\ Entry(s).version = INITIAL_VERSION
    /\ ~RecentReorder(s, t)
    /\ ~EntryOlderThanMarker(s)

\* C13: a page load that finds a valid entry 10 minutes old (any age up to
\* the TTL) shows the cached data, sends no request and leaves localStorage
\* as it is, with no write under way.
C13_FreshHitNoNetworkNoRewrite ==
    [][PageLoad /\ ServableButForAge(store, now) /\ now - Entry(store).timestamp <= TTL
         => /\ last'.res = "cache"
            /\ gpc' = "ready"
            /\ galleryState'.allImages = Entry(store).data.images
            /\ requests' = 0
            /\ store' = store
            /\ pendingWrite' = None]_vars

\* an entry 10 minutes old has just been served
C13_Witness ==
    /\ last.op = "pageLoad"
    /\ last.res = "cache"
    /\ HasEntry(store)
    /\ now - Entry(store).timestamp = 600000
    /\ requests = 0

\* C14: a page load that finds an otherwise valid entry 17 minutes old
\* shows the cached data and refetches: the entry is served and a request
\* for page 1 is sent.
C14_OldHitServedAndRefetched ==
    [][PageLoad /\ ServableButForAge(store, now) /\ now - Entry(store).timestamp = 1020000
         => /\ last'.res = "cache"
            /\ galleryState'.allImages = Entry(store).data.images
            /\ requests' = 1]_vars

\* C15: no storage exception leaves getCachedData, setCachedData,
\* clearGalleryCache or invalidateGalleryCache: no operation ends by
\* throwing to its caller, and a page load on a storage that throws still
\* sends its request (or serves a hit) rather than ending in the error state.
C15_StorageExceptionsContained ==
    /\ last.res # "thrown"
    /\ (last.op = "pageLoad" /\ storageThrows # {} => gpc \in {"fetching", "ready"})

\* The value under gallery_cache is not JSON, and storage can be read and
\* removed from
MalformedStored(s, th) ==
    s[KEY] = Some(Malformed) /\ "getItem" \notin th /\ "removeItem" \notin th

\* C16 as stated: every read of a value that is not JSON returns nothing
\* and removes the value.
C16_MalformedRemovedAlways ==
    [][PageLoadOn("modular") /\ MalformedStored(store, storageThrows)
         => last'.res = "network" /\ store'[KEY] = None]_vars

\* C16: a read of a value that is not JSON returns nothing, so the page
\* goes to the network; the value is removed by a read made 60 seconds or
\* more after the reorder marker (or with no marker), and a read inside the
\* 60 seconds returns before it looks at the value and leaves it stored.
C16_MalformedTreatedAsAbsent ==
    [][PageLoadOn("modular") /\ MalformedStored(store, storageThrows)
         => /\ last'.res = "network"
            /\ gpc' = "fetching"
            /\ requests' = 1
            /\ IF RecentReorder(store, now)
               THEN store' = store
               ELSE store'[KEY] = None /\ Marker(store') = Marker(store)]_vars

\* a read has just removed a value that is not JSON
C16_Witness ==
    /\ last.op = "pageLoad"
    /\ last.why = "caught"
    /\ store[KEY] = None
    /\ "removeItem" \notin storageThrows
    /\ gpc = "fetching"

\* C17: a successful upload, delete, bulk delete or caption edit leaves no
\* cache entry, and leaves the marker, both pages' CACHE_VERSION and the
\* suppression of writes as they were; a page load that finds no entry goes
\* to the network.
C17_MutationOnlyClearsEntry ==
    [][/\ CmsMutation
           => /\ ~HasEntry(store')
              /\ Marker(store') = Marker(store)
              /\ cversion' = cversion
              /\ gversion' = gversion
              /\ RecentReorder(store', now') = RecentReorder(store, now)
              /\ pendingWrite' = pendingWrite
       /\ PageLoad /\ ~HasEntry(store)
           => last'.res = "network" /\ requests' = 1]_vars

\* an entry written after the window of the only reorder has been cleared
\* by a mutation, the marker still there
C17_Witness ==
    /\ Len(invTimes) = 1
    /\ cpc = "idle"
    /\ Marker(store) = Some(invTimes[1])
    /\ last.op = "firstPage"
    /\ last.wrote = "stored"
    /\ pendingWrite = None
    /\ galleryState.allImages[1].at >= invTimes[1] + SUPPRESSION_MS
    /\ ~HasEntry(store)

\* C18: the CACHE_VERSION of a page never takes a value lower than one it
\* held before, reloads of the page included.
C18_VersionNeverDecreases ==
    [][cversion' >= cversion /\ gversion' >= gversion]_vars

\* C19 as stated: the stored entry is the payload of page 1, its images
\* and the cursor that follows page 1.
C19_EntryIsFirstPage ==
    HasEntry(store)
        => /\ Len(Entry(store).data.images) = 1
           /\ Entry(store).data.images[1].id = 1
           /\ Entry(store).data.pagination.next_cursor
                = ApiResponse(Null, 0, "total").pagination.next_cursor

\* C19: the stored entry holds the images of pages 1..k the page had
\* loaded when it wrote, in order, with the cursor and has_more that follow
\* page k: page 1 alone after a first-page load from the network, one page
\* more after every load-more.
C19_EntryIsPagesLoaded ==
    HasEntry(store)
        => LET images == Entry(store).data.images
               k == Len(images)
               pagination == Entry(store).data.pagination
           IN /\ k \in 1..NumPages
              /\ \A i \in 1..k : images[i].id = i
              /\ pagination.next_cursor = (IF k < NumPages THEN Cursor(k + 1) ELSE Null)
              /\ pagination.has_more = Bool(k < NumPages)

\* the entry written after a load-more holds two pages
C19_Witness ==
    /\ HasEntry(store)
    /\ Len(Entry(store).data.images) = 2
    /\ last.op = "moreResponse"
    /\ last.wrote = "stored"

\* The phase of the cache lifecycle a store is in at time t
Phase(s, t) ==
    IF Marker(s) = None THEN "CLEAN"
    ELSE IF t - Marker(s)[1] < SUPPRESSION_MS THEN "SUPPRESSED"
    ELSE IF HasEntry(s) /\ Entry(s).timestamp >= Marker(s)[1] + SUPPRESSION_MS
         THEN "CLEAN"
         ELSE "STALE-BUT-UNBLOCKED"

\* C20 as stated: while a marker is set, an entry in the store is never
\* older than the marker.
C20_EntryNeverOlderThanMarker ==
    Marker(store) # None /\ HasEntry(store)
        => Entry(store).timestamp >= Marker(store)[1]

\* C20: an entry older than the marker can be in the store, but a read
\* never serves it; an entry a write call prepares while a marker is set
\* carries a timestamp of at least marker + 60000 ms. The lifecycle is
\* entered at SUPPRESSED only by the marker write of invalidateGalleryCache,
\* leaves SUPPRESSED only by the passage of time and then to
\* STALE-BUT-UNBLOCKED, and returns from there to CLEAN only by storing an
\* entry whose timestamp is at least marker + 60000 ms.
C20_Lifecycle ==
    [][LET p == Phase(store, now)
           q == Phase(store', now')
       IN /\ PageLoad /\ EntryOlderThanMarker(store) => last'.res = "network"
          /\ WriteCall /\ Marker(store) # None /\ pendingWrite' # None
                => JsonParse(pendingWrite'[1]).timestamp
                     >= Marker(store)[1] + SUPPRESSION_MS
          /\ p # "SUPPRESSED" /\ q = "SUPPRESSED"
                => /\ InvalidateStep
                   /\ InvalidateSteps[StepIndex] = "mark"
                   /\ Marker(store') = Some(now)
          /\ p = "SUPPRESSED" /\ q # "SUPPRESSED"
                => /\ now' > now
                   /\ store' = store
                   /\ q = "STALE-BUT-UNBLOCKED"
          /\ p = "STALE-BUT-UNBLOCKED" /\ q = "CLEAN"
                => /\ CommitWrite
                   /\ Marker(store') = Marker(store)
                   /\ Entry(store').timestamp >= Marker(store)[1] + SUPPRESSION_MS]_vars

\* the lifecycle has come back to CLEAN: a marker is set, its window has
\* passed and a write made after it has just been stored
C20_Witness ==
    /\ Marker(store) # None
    /\ Phase(store, now) = "CLEAN"
    /\ last.wrote = "stored"
    /\ pendingWrite = None
    /\ Entry(store).timestamp = now

\* C21: a reorder PUT that returns a non-ok status or throws leaves the
\* marker, the CMS page's expected version and the stored entry as they
\* were and ends the call; the statements that set the marker, bump the
\* version and clear the entry on the reorder path are entered only from a
\* PUT that returned ok.
C21_ReorderFailureChangesNothing ==
    [][/\ ReorderResponse(FALSE)
           => store' = store /\ cversion' = cversion /\ cpc' = "idle"
       /\ cpc = "put" /\ cpc' = "inv1" => ReorderResponse(TRUE)
       /\ InvalidateStep \/ ClearAfterReorder => cpc # "put" /\ ~Ran("error")
       /\ Marker(store') # Marker(store) \/ cversion' # cversion => InvalidateStep]_vars

\* a reorder has just failed while a marker and an entry were stored
C21_Witness ==
    /\ cpc = "idle"
    /\ Ran("error")
    /\ Marker(store) # None
    /\ HasEntry(store)
    /\ cversion > INITIAL_VERSION

\* C22: a load-more that starts sends a request for the current cursor
\* and reads nothing from the store; when the request succeeds the image
\* list is the previous list followed by the images of the response, the
\* cursor and has_more are those of the response, and the accumulated
\* list is handed to setItem with the time of the call unless a reorder
\* marker is younger than 60 seconds, in which case nothing is written.
C22_LoadMoreFromNetwork ==
    [][/\ LoadMoreImages /\ LoadMoreStarts(galleryState, button)
           => /\ moreReqs' = moreReqs \o <<galleryState.nextCursor>>
              /\ store' = store
              /\ galleryState'.allImages = galleryState.allImages
       /\ \A i \in 1..Len(moreReqs), total \in TotalCounts :
            LoadMoreResponse(i, TRUE, total)
              => LET data == ApiResponse(moreReqs[i], now, total) IN
                 /\ galleryState'.allImages = galleryState.allImages \o data.images
                 /\ galleryState'.nextCursor = data.pagination.next_cursor
                 /\ galleryState'.hasMore = data.pagination.has_more
                 /\ store' = store
                 /\ IF Marker(store) # None /\ now - Marker(store)[1] < SUPPRESSION_MS
                    THEN pendingWrite' = None
                    ELSE /\ pendingWrite' # None
                         /\ JsonParse(pendingWrite'[1]).timestamp = now
                         /\ JsonParse(pendingWrite'[1]).data.images
                              = galleryState.allImages \o data.images
                         /\ JsonParse(pendingWrite'[1]).data.pagination.next_cursor
                              = data.pagination.next_cursor]_vars

\* a page served from the cache has loaded one page more from the network
\* and the two pages are about to be stored
C22_Witness ==
    /\ last.op = "moreResponse"
    /\ last.res = "ok"
    /\ last.wrote = "stored"
    /\ requests = 0
    /\ Len(galleryState.allImages) = 2
    /\ pendingWrite # None

\* The body lacks an images array or a pagination object
LacksImagesOrPagination(shape) ==
    shape \in {"noImages", "imagesString", "noPagination", "paginationNull",
               "paginationString"}

\* C23: a response whose body lacks an images array or a pagination
\* object makes fetchGalleryImages throw, and the failed first-page load or
\* load-more leaves the image list, the cursor, has_more and the store as
\* they were, with nothing handed to setItem.
C23_InvalidResponseChangesNothing ==
    [][\A shape \in Shapes, total \in TotalCounts :
         LacksImagesOrPagination(shape)
           => /\ ~ValidResponse(ResponseBody(Null, now, total, shape))
              /\ FirstPageArrives(TRUE, shape, total)
                   => /\ galleryState' = galleryState
                      /\ store' = store
                      /\ pendingWrite' = None
                      /\ gpc' = "error"
              /\ \A i \in 1..Len(moreReqs) :
                   LoadMoreArrives(i, TRUE, shape, total)
                     => /\ galleryState'.allImages = galleryState.allImages
                        /\ galleryState'.nextCursor = galleryState.nextCursor
                        /\ galleryState'.hasMore = galleryState.hasMore
                        /\ store' = store
                        /\ pendingWrite' = None
                        /\ last'.res = "fail"]_vars

\* a load-more has just failed on a page that shows images while an entry
\* is stored
C23_Witness ==
    /\ last.op = "moreResponse"
    /\ last.res = "fail"
    /\ Len(galleryState.allImages) = 1
    /\ Truthy(galleryState.hasMore)
    /\ HasEntry(store)

\* C24: when fetch resolves with an HTTP response, fetchWithRetry returns
\* that response without a further fetch, whatever the status and the
\* retries remaining; a call whose first fetch is answered with a 4xx or
\* 5xx status has made exactly one fetch when it returns.
C24_HttpResponseNotRetried ==
    [][/\ \A status \in Statuses :
            FetchResponds(status)
              => /\ http'.pc = "returned"
                 /\ http'.result = Some(Response(status))
                 /\ http'.fetches = http.fetches
                 /\ http'.retries = http.retries
       /\ http'.pc = "returned" /\ http'.errors = <<>> => http'.fetches = 1]_vars

\* a call with all its retries left has returned a 500 after one fetch
C24_Witness ==
    /\ http.pc = "returned"
    /\ http.result = Some(Response(500))
    /\ http.retries = RETRY_ATTEMPTS
    /\ http.fetches = 1

\* C25 as stated: a call with the default settings that fails with
\* network or timeout errors throughout has made 3 fetches when it throws.
C25_ThreeAttempts ==
    http.pc = "thrown" /\ http.initial = RETRY_ATTEMPTS /\ IsNetworkError(http.result[1])
        => http.fetches = 3

\* C25: a call with the default settings whose fetches all fail with
\* network or timeout errors makes 4 fetches, the first and 3 retries, waits
\* 1000 ms before each retry and then throws the last error; no call makes
\* more fetches than its retries plus one; an error that is neither a
\* network nor a timeout error is thrown by the attempt that met it, with
\* no delay and no fetch after it.
C25_RetriesThenThrows ==
    [][/\ http'.pc = "thrown" /\ http'.initial = RETRY_ATTEMPTS
            /\ IsNetworkError(http'.result[1])
           => /\ http'.fetches = RETRY_ATTEMPTS + 1
              /\ http'.waits = <<RETRY_DELAY, RETRY_DELAY, RETRY_DELAY>>
              /\ Len(http'.errors) = RETRY_ATTEMPTS + 1
       /\ http'.fetches <= http'.initial + 1
       /\ Len(http'.waits) = http'.fetches - 1 \/ http'.pc = "none"
       /\ \A i \in 1..Len(http'.waits) : http'.waits[i] = RETRY_DELAY
       /\ \A error \in FetchErrors :
            FetchRejects(error) /\ ~IsNetworkError(error)
              => /\ http'.pc = "thrown"
                 /\ http'.result = Some(error)
                 /\ http'.fetches = http.fetches
       /\ \A error \in FetchErrors :
            FetchRejects(error) /\ IsNetworkError(error)
              => IF http.retries > 0
                 THEN http'.pc = "waiting" /\ http'.retries = http.retries - 1
                 ELSE http'.pc = "thrown" /\ http'.result[1].name = error.name]_vars

\* a call with the default settings has thrown after its last retry timed out
C25_Witness ==
    /\ http.pc = "thrown"
    /\ http.initial = RETRY_ATTEMPTS
    /\ http.retries = 0
    /\ http.result[1].name = "AbortError"
    /\ Len(http.errors) = RETRY_ATTEMPTS + 1

\* C26: a read made while now - marker < 60000 ms returns nothing,
\* whatever is stored under gallery_cache (nothing, a fresh entry, an entry
\* older than the marker or than the TTL, an entry of another version, a
\* value that is not JSON), and leaves the store as it was.
C26_WindowReadReturnsNullKeepsEntry ==
    [][\A impl \in {"modular", "legacy"} :
         PageLoadOn(impl) /\ Marker(store) # None
             /\ now - Marker(store)[1] < SUPPRESSION_MS
           => /\ last'.res = "network"
              /\ last'.why = "window"
              /\ store' = store
              /\ galleryState' = ResetState]_vars

\* a read inside the window has just left alone an entry older than the TTL
C26_Witness ==
    /\ last.op = "pageLoad"
    /\ last.why = "window"
    /\ store[KEY] # None
    /\ store[KEY] # Some(Malformed)
    /\ now - Entry(store).timestamp > TTL

\* C27: every image a cache hit returns was obtained from the network at
\* most 15 minutes before the read.
C27_HitImagesWithinTtl ==
    [][PageLoad /\ last'.res = "cache"
         => \A i \in 1..Len(galleryState'.allImages) :
                now - galleryState'.allImages[i].at <= TTL]_vars

\* C28: isLoading is set exactly while one load-more request of the page
\* is in flight; the settling of that request, with a valid response, an
\* invalid one or an error, resets it; and a flag that is set is reset in
\* the end, so that a load-more can start again.
C28_LoadingFlagReleased ==
    /\ [](galleryState.isLoading <=> Len(moreReqs) = 1)
    /\ [][LoadMoreSettles => ~galleryState'.isLoading]_vars
    /\ (galleryState.isLoading ~> ~galleryState.isLoading)

\* a load-more has failed, the flag is down and the button is still there
C28_Witness ==
    /\ last.op = "moreResponse"
    /\ last.res = "fail"
    /\ ~galleryState.isLoading
    /\ LoadMoreStarts(galleryState, button)

\* C29: onAuthExpired has been invoked only in a call whose 401 from a
\* non-auth endpoint was followed by a refresh that failed or returned no
\* token; a call whose refresh yielded a token has stored it, has issued
\* the request twice, the second time with the new token, and ends with
\* what the second request ended with.
C29_AuthExpiredOnlyOnFailedRefresh ==
    [][/\ cors'.authExpired
           => ~IsAuthEndpoint(cors'.url) /\ cors'.refreshed \in {"null", "throws"}
       /\ cors'.refreshed = "token" /\ cors'.pc \in {"returned", "thrown"}
           => cors'.token = "new" /\ cors'.sent = <<cors'.sent[1], "new">>
       /\ RetryRejects => cors'.result = Some(Threw("Network error"))
       /\ \A status \in CorsStatuses :
            RetryResponds(status) => cors'.result = Some(Returned(status))]_vars

\* C30: whenever the lightbox is open, no load is pending and no error
\* message is shown, the image displayed is the one at currentIndex; and
\* at most one load started by loadImage is outstanding.
C30_ShownIsCurrentOneLoad ==
    /\ lightbox.isOpen /\ ~lightbox.isLoading /\ ~lightbox.error
         => lightbox.shown = lightbox.currentIndex
    /\ Len(lightbox.loads) <= 1

====
